---- MODULE Spec2Model ----
(***************************************************************************)
(* Model of the bundle distribution engine of uds-cli:                     *)
(*   - Bundle (publish), src/src/pkg/bundler/bundle.go lines 22-186        *)
(*   - RemoteBundle.downloadPkgFromRemoteBundle (fetch), lines 371-445     *)
(* The registry, the layer resolver, the copier and the blob cache are     *)
(* external collaborators; every call to them may fail.                    *)
(***************************************************************************)
EXTENDS Integers, Sequences, FiniteSets, TLC

\* Longest package list of a bundle the model explores.
MaxPkgs == 2

----------------------------------------------------------------------------
\* Descriptors and media types

ZarfLayerMediaTypeBlob == "application/vnd.zarf.layer.v1.blob"
MediaTypeImageManifest == "application/vnd.oci.image.manifest.v1+json"
MediaTypeImageConfig == "application/vnd.oci.image.config.v1+json"

BundleYAML == "uds-bundle.yaml"
BundleYAMLSignature == "uds-bundle.yaml.sig"
ZarfYAML == "zarf.yaml"
ChecksumsTxt == "checksums.txt"

Desc(dg, mt, t) == [digest |-> dg, mediaType |-> mt, title |-> t]

EmptyDescriptor == Desc("", "", "")

\* Variant of IsEmptyDescriptor that takes every descriptor for non-empty.
IsEmptyDescriptor_Never(d) == FALSE

IsEmptyDescriptor(d) == d.digest = ""

\* The always-pull metadata paths of a package.
PackageAlwaysPull == <<"zarf.yaml", "checksums.txt", "zarf.yaml.sig">>

----------------------------------------------------------------------------
\* The source packages the bundle may reference (the environment of a run).
\* pkgA lives in registry regA, pkgB in regB. Both have an optional component.
\* Image blob "bx" is used by both components of pkgA; image blob "by" is
\* used by pkgA's optional component and by pkgB's required component.
\* Neither package is signed (no zarf.yaml.sig) and pkgB has no checksums.txt.

Registries == {"regA", "regB"}

SourcePackages ==
  [pkgA |->
     [registry |-> "regA",
      manifestDigest |-> "a_manifest",
      config |-> Desc("a_cfg", MediaTypeImageConfig, ""),
      layers |-> << Desc("a_zy", ZarfLayerMediaTypeBlob, "zarf.yaml"),
                    Desc("a_cs", ZarfLayerMediaTypeBlob, "checksums.txt"),
                    Desc("a_core", ZarfLayerMediaTypeBlob, "components/core.tar"),
                    Desc("a_opt", ZarfLayerMediaTypeBlob, "components/opt.tar"),
                    Desc("bx", ZarfLayerMediaTypeBlob, "images/blobs/sha256/bx"),
                    Desc("by", ZarfLayerMediaTypeBlob, "images/blobs/sha256/by") >>,
      components |-> << [name |-> "core", required |-> TRUE, paths |-> <<3, 5>>],
                        [name |-> "opt", required |-> FALSE, paths |-> <<4, 5, 6>>] >>],
   pkgB |->
     [registry |-> "regB",
      manifestDigest |-> "b_manifest",
      config |-> Desc("b_cfg", MediaTypeImageConfig, ""),
      layers |-> << Desc("b_zy", ZarfLayerMediaTypeBlob, "zarf.yaml"),
                    Desc("b_core", ZarfLayerMediaTypeBlob, "components/core.tar"),
                    Desc("b_opt", ZarfLayerMediaTypeBlob, "components/opt.tar"),
                    Desc("by", ZarfLayerMediaTypeBlob, "images/blobs/sha256/by") >>,
      components |-> << [name |-> "core", required |-> TRUE, paths |-> <<2, 4>>],
                        [name |-> "opt", required |-> FALSE, paths |-> <<3>>] >>]]

PkgNames == DOMAIN SourcePackages

\* One entry of bundle.ZarfPackages: the source repository and the requested
\* optional components.
PkgRefs == [Repository : PkgNames, OptionalComponents : SUBSET {"opt"}]

PkgLists == UNION {[1..n -> PkgRefs] : n \in 0..MaxPkgs}

\* The root manifest FetchRoot returns for a source package.
RootOf(name) ==
  [layers |-> SourcePackages[name].layers, config |-> SourcePackages[name].config]

NoRoot == [layers |-> <<>>, config |-> EmptyDescriptor]

\* root.Locate(path): the layer titled path (or with that digest), else the
\* empty descriptor.
Locate(layers, path) ==
  IF \E j \in 1..Len(layers) : layers[j].title = path \/ layers[j].digest = path
  THEN layers[CHOOSE j \in 1..Len(layers) :
                /\ layers[j].title = path \/ layers[j].digest = path
                /\ \A h \in 1..(j-1) : ~(layers[h].title = path \/ layers[h].digest = path)]
  ELSE EmptyDescriptor

RECURSIVE Flatten(_)
Flatten(ss) == IF ss = <<>> THEN <<>> ELSE Head(ss) \o Flatten(Tail(ss))

\* remote.LayersFromRequestedComponents(pkg.OptionalComponents): the layers of
\* every required or requested component, in component order, one entry per
\* path a component names (a path two components share appears twice).
LayersFromRequestedComponents(name, requested) ==
  LET p == SourcePackages[name]
      one(c) == IF c.required \/ c.name \in requested
                THEN [j \in 1..Len(c.paths) |-> p.layers[c.paths[j]]]
                ELSE <<>>
  IN Flatten([c \in 1..Len(p.components) |-> one(p.components[c])])

\* Variant of MetadataLayersFrom that keeps the empty descriptors.
RECURSIVE MetadataLayersFrom_KeepEmpty(_, _)
MetadataLayersFrom_KeepEmpty(layers, paths) ==
  IF paths = <<>> THEN <<>>
  ELSE <<Locate(layers, Head(paths))>> \o MetadataLayersFrom_KeepEmpty(layers, Tail(paths))

\* Lines 65-71: the always-pull paths the root manifest has a layer for.
RECURSIVE MetadataLayersFrom(_, _)
MetadataLayersFrom(layers, paths) ==
  IF paths = <<>> THEN <<>>
  ELSE LET layer == Locate(layers, Head(paths))
       IN (IF ~IsEmptyDescriptor(layer) THEN <<layer>> ELSE <<>>)
          \o MetadataLayersFrom(layers, Tail(paths))

\* The layers that are always pulled.
MetadataLayers(root) == MetadataLayersFrom(root.layers, PackageAlwaysPull)

\* Variant of FilterLayers that accepts every blob of the source repository.
FilterLayers_AcceptAll(layersToCopy, d) == TRUE

\* filterLayers: true if the layer's digest is in the list of layers to copy.
FilterLayers(layersToCopy, d) ==
  \E j \in 1..Len(layersToCopy) : layersToCopy[j].digest = d.digest

\* Variant of UseStreamingCopy with the comparison inverted.
UseStreamingCopy_Inverted(pkgRegistry, dstRegistry) == pkgRegistry = dstRegistry

\* The branch of line 77: stream copy when the registries differ.
UseStreamingCopy(pkgRegistry, dstRegistry) == pkgRegistry # dstRegistry

\* Variant of ArchitectureMissing that never rejects a bundle.
ArchitectureMissing_Never(b) == FALSE

\* The precondition of line 24.
ArchitectureMissing(b) == b.Metadata.Architecture = ""

\* Variant of CoerceToManifest that leaves the descriptor as pushed.
CoerceToManifest_Kept(d) == d

\* Line 54: the descriptor with its media type set to image manifest.
CoerceToManifest(d) == [d EXCEPT !.mediaType = MediaTypeImageManifest]

DigestsOf(s) == {s[j].digest : j \in 1..Len(s)}

\* The digests the local blob cache may hold.
CacheDigests == {"bx", "a_core"}

\* strings.Contains(title, config.BlobsDir): the titles under blobs/sha256.
TitleInBlobsDir(title) ==
  title \in {"images/blobs/sha256/bx", "images/blobs/sha256/by"}

\* Variant of CacheHit that does not look at the layer's title.
CacheHit_AnyTitle(layer, c) == layer.digest \in c

\* The condition of line 406: the layer is an image blob and is in the cache.
CacheHit(layer, c) == TitleInBlobsDir(layer.title) /\ layer.digest \in c

\* FetchManifest of a sub-manifest pushed into the bundle: the layers of the
\* package root manifest with that digest.
SubManifestLayers(dg) ==
  IF \E n \in PkgNames : SourcePackages[n].manifestDigest = dg
  THEN SourcePackages[CHOOSE n \in PkgNames : SourcePackages[n].manifestDigest = dg].layers
  ELSE <<>>

\* The annotation keys of lines 191-192 and 209-225.
AnnotationTitle == "org.opencontainers.image.title"
AnnotationDescription == "org.opencontainers.image.description"
AnnotationURL == "org.opencontainers.image.url"
AnnotationAuthors == "org.opencontainers.image.authors"
AnnotationDocumentation == "org.opencontainers.image.documentation"
AnnotationSource == "org.opencontainers.image.source"
AnnotationVendor == "org.opencontainers.image.vendor"

\* The metadata field an annotation key is filled from.
MetadataField(metadata, key) ==
  CASE key = AnnotationTitle -> metadata.Name
    [] key = AnnotationDescription -> metadata.Description
    [] key = AnnotationURL -> metadata.URL
    [] key = AnnotationAuthors -> metadata.Authors
    [] key = AnnotationDocumentation -> metadata.Documentation
    [] key = AnnotationSource -> metadata.Source
    [] key = AnnotationVendor -> metadata.Vendor

NoAnnotations == [key \in {} |-> ""]

\* Lines 207-229: the description is put in the map as it is; each of the
\* other five keys is added when its field is not empty.
manifestAnnotationsFromMetadata(metadata) ==
  LET conditional == {AnnotationURL, AnnotationAuthors, AnnotationDocumentation,
                      AnnotationSource, AnnotationVendor}
      keys == {AnnotationDescription} \cup
              {key \in conditional : MetadataField(metadata, key) # ""}
  IN [key \in keys |-> MetadataField(metadata, key)]

\* Lines 190-198: the config pushed by pushManifestConfigFromMetadata.
manifestConfig(metadata, build) ==
  [Architecture |-> build.Architecture,
   OCIVersion   |-> "1.0.1",
   Annotations  |-> [key \in {AnnotationTitle, AnnotationDescription} |->
                       MetadataField(metadata, key)]]

NoConfig == [Architecture |-> "", OCIVersion |-> "", Annotations |-> NoAnnotations]

Architectures == {"", "amd64"}

\* The UDSMetadata records whose text fields are drawn from texts.
Metadatas(texts) ==
  [Architecture : Architectures, Name : texts, Description : texts, URL : texts,
   Authors : texts, Documentation : texts, Source : texts, Vendor : texts]

----------------------------------------------------------------------------
\* The task runner (runner.go): tasks files and their tasks.

\* Bounds of the tasks files Run is given.
MaxActions == 3

MaxRetriesBound == 2

MaxDepth == 6

\* Line 239: the timeout a wait action gets when it has none.
DefaultWaitSeconds == 300

\* The names of the tasks of a tasks file, in file order, and a name no tasks
\* file has a task for.
TaskNames == <<"A", "B", "C", "D">>

MissingTask == "E"

\* A types.Action that runs a command (TaskReference is empty): Wait says
\* whether action.Wait is set, MaxTotalSeconds is <<>> for a nil pointer.
ZarfAction(wait, retries, seconds) ==
  [TaskReference |-> "", Wait |-> wait, MaxRetries |-> retries,
   MaxTotalSeconds |-> seconds]

Cmd == ZarfAction(FALSE, 0, <<>>)

\* A types.Action that references a task.
Ref(name) ==
  [TaskReference |-> name, Wait |-> FALSE, MaxRetries |-> 0, MaxTotalSeconds |-> <<>>]

GraphActions ==
  {Cmd} \cup {Ref(TaskNames[j]) : j \in 1..Len(TaskNames)} \cup {Ref(MissingTask)}

\* The tasks file with one task per name of TaskNames, whose actions are, in
\* order, the actions of acts that owners gives to the task.
FileOf(owners, acts) ==
  [t \in 1..Len(TaskNames) |->
     LET IsOwned(j) == owners[j] = t
         mine == SelectSeq([j \in 1..Len(acts) |-> j], IsOwned)
     IN [Name |-> TaskNames[t], Actions |-> [j \in 1..Len(mine) |-> acts[mine[j]]]]]

\* The ways to give n actions to the tasks, in file order.
Owners(n) ==
  {o \in [1..n -> 1..Len(TaskNames)] : \A j \in 1..(n-1) : o[j] <= o[j+1]}

\* The tasks files of one task with one command, over the retry and timeout
\* settings of the command.
RetryFiles ==
  {<<[Name |-> TaskNames[1], Actions |-> <<ZarfAction(w, r, t)>>]>> :
     w \in BOOLEAN, r \in 0..MaxRetriesBound, t \in {<<>>, <<0>>, <<1>>}}

\* Lines 53-60, getTask: the first task of the file with that name.
HasTask(file, name) == \E j \in 1..Len(file) : file[j].Name = name

getTask(file, name) ==
  file[CHOOSE j \in 1..Len(file) :
         /\ file[j].Name = name
         /\ \A h \in 1..(j-1) : file[h].Name # name]

\* Variant of LoopDetected that never finds the reference in TaskNameMap.
LoopDetected_Never(map, reference) == FALSE

\* The condition of lines 207-208: the reference is already in TaskNameMap.
LoopDetected(map, reference) == reference \in map

\* Variant of InitialRemaining that allows one iteration more.
InitialRemaining_OneMore(c) == c.MaxRetries + 2

\* Line 293: the first value of remaining.
InitialRemaining(c) == c.MaxRetries + 1

\* Lines 236-261 and 280, the cfg actionGetCfg returns from zero defaults: a
\* wait action gets MaxRetries 0 and, when it has no timeout, five minutes.
ActionCfg(action) ==
  [MaxRetries |-> IF action.Wait THEN 0 ELSE action.MaxRetries,
   MaxTotalSeconds |->
     IF action.MaxTotalSeconds # <<>> THEN action.MaxTotalSeconds[1]
     ELSE IF action.Wait THEN DefaultWaitSeconds ELSE 0]

NoCfg == [MaxRetries |-> 0, MaxTotalSeconds |-> 0]

Frame(name) == [task |-> name, idx |-> 1]

----------------------------------------------------------------------------
VARIABLES
  bundle,        \* the UDSBundle given to Bundle
  signature,     \* the signature bytes given to Bundle
  refRegistry,   \* r.Repo().Reference.Registry, the destination registry
  pc,            \* position of the Bundle call
  err,           \* the error Bundle returned, "" if none
  i,             \* index of the package the loop of line 32 is at
  root,          \* root manifest of the current package
  manifest,      \* the bundle manifest under construction
  layersToCopy,  \* layersToCopy of the current package
  k,             \* index of the mount loop of line 101
  dstBlobs,      \* digests of the blobs in the destination repository
  dstRef,        \* the manifest stored under the target reference
  configBlob,    \* the manifestConfig pushed to the destination as config blob
  ops,           \* the registry calls issued so far, in order
  selected,      \* per processed package, its layersToCopy of line 73
  cache,         \* digests in the local blob cache
  PkgManifestSHA,\* RemoteBundle.PkgManifestSHA
  isPartial,     \* RemoteBundle.isPartial
  fpc,           \* position of downloadPkgFromRemoteBundle
  fres,          \* outcome of the last call on the session
  pkgManifestDesc, \* descriptor of the package's sub-manifest
  pkgManifest,   \* layers of the fetched sub-manifest
  fi,            \* index of the loop of line 396
  layersToPull,  \* layers queued for download
  layersInBundle,\* layers confirmed present in the bundle
  cacheUsed,     \* digests materialized with cache.Use during the call
  returned,      \* the layers the last successful call returned
  fops,          \* the calls the current call on the session has issued
  fresDigest,    \* the digest the returned error names, "" if none
  validatedPartial, \* the partial argument of the call's integrity validation
  setLayers,     \* the layers given to dst.SetFromLayers by LoadPackageMetadata
  tasksFile,     \* the TasksFile given to Run: its Tasks, in order
  taskName,      \* the task name given to Run
  TaskNameMap,   \* Runner.TaskNameMap: the names mapped to true
  rpc,           \* position of the Run call
  rerr,          \* the error Run returned, "" if none
  stack,         \* the executeTask calls in progress: task name, action index
  cstack,        \* the checkForTaskLoops calls in progress: task name, action index
  cfg,           \* cfg of the performZarfAction call in progress
  remaining,     \* remaining of the retry loop of line 293
  timer,         \* the channel of time.After (line 290)
  attemptLog,    \* outcomes of the actionRun calls of the current action
  timeoutSeenAt, \* number of attempts made when the loop received the timeout
  progress,      \* state of the progress task the current call started (line 432)
  wg             \* the wait group the current call created (line 430)

pubVars == <<bundle, signature, refRegistry, pc, err, i, root, manifest,
             layersToCopy, k, dstBlobs, dstRef, configBlob, ops, selected>>

fetchVars == <<cache, PkgManifestSHA, isPartial, fpc, fres, pkgManifestDesc,
               pkgManifest, fi, layersToPull, layersInBundle, cacheUsed, returned,
               fops, fresDigest, validatedPartial, setLayers, progress, wg>>

runVars == <<tasksFile, taskName, TaskNameMap, rpc, rerr, stack, cstack, cfg,
             remaining, timer, attemptLog, timeoutSeenAt>>

vars == <<pubVars, fetchVars, runVars>>

NoManifest ==
  [Layers |-> <<>>, Config |-> EmptyDescriptor, SchemaVersion |-> 0,
   Annotations |-> NoAnnotations]

Call(c, p, dg, ok) == [call |-> c, pkg |-> p, digest |-> dg, ok |-> ok]

\* The task runner before Run is called.
RunnerLocals ==
  /\ TaskNameMap = {}
  /\ rerr = ""
  /\ stack = <<>>
  /\ cstack = <<>>
  /\ cfg = NoCfg
  /\ remaining = 0
  /\ timer = "none"
  /\ attemptLog = <<>>
  /\ timeoutSeenAt = <<>>

\* The locals of Bundle and the RemoteBundle session before Bundle is called.
BundlerLocals ==
  /\ pc = "start"
  /\ err = ""
  /\ i = 1
  /\ root = NoRoot
  /\ manifest = NoManifest
  /\ layersToCopy = <<>>
  /\ k = 1
  /\ dstBlobs = {}
  /\ dstRef = NoManifest
  /\ configBlob = NoConfig
  /\ ops = <<>>
  /\ selected = <<>>
  /\ cache = {}
  /\ PkgManifestSHA = ""
  /\ isPartial = FALSE
  /\ fpc = "none"
  /\ fres = "none"
  /\ pkgManifestDesc = EmptyDescriptor
  /\ pkgManifest = <<>>
  /\ fi = 1
  /\ layersToPull = <<>>
  /\ layersInBundle = <<>>
  /\ cacheUsed = <<>>
  /\ returned = <<>>
  /\ fops = <<>>
  /\ fresDigest = ""
  /\ validatedPartial = <<>>
  /\ setLayers = <<>>
  /\ progress = "none"
  /\ wg = 0

\* The state before Bundle is called, but for the bundle it is called with.
InitCall ==
  /\ signature \in {<<>>, <<1>>}
  /\ refRegistry \in Registries
  /\ BundlerLocals
  /\ tasksFile = <<>>
  /\ taskName = ""
  /\ rpc = "none"
  /\ RunnerLocals

\* Bundle is called with a bundle of up to MaxPkgs packages whose text fields
\* and build architecture are filled in.
Init ==
  /\ bundle \in [Metadata : Metadatas({"text"}),
                  Build : [Architecture : {"amd64"}],
                  ZarfPackages : PkgLists]
  /\ InitCall

\* Bundle is called with a bundle of no packages, any metadata and any build
\* architecture.
InitMeta ==
  /\ bundle \in [Metadata : Metadatas({"", "text"}),
                  Build : [Architecture : Architectures],
                  ZarfPackages : {<<>>}]
  /\ InitCall

----------------------------------------------------------------------------
\* Bundle (publish), one action per registry call.

NumPkgs == Len(bundle.ZarfPackages)

CurPkg == bundle.ZarfPackages[i]

\* Where the call goes after package j-1: the next package or the metadata.
AfterPkg(j) == IF j <= NumPkgs THEN "fetchRoot" ELSE "bundleYaml"

\* Lines 24-30: the architecture precondition.
BundleStart ==
  /\ pc = "start"
  /\ IF ArchitectureMissing(bundle)
     THEN /\ pc' = "failed"
          /\ err' = "architecture is required for bundling"
     ELSE /\ pc' = AfterPkg(1)
          /\ err' = err
  /\ UNCHANGED <<configBlob, bundle, signature, refRegistry, i, root, manifest,
                 layersToCopy, k, dstBlobs, dstRef, ops, selected,
                 fetchVars, runVars>>

\* Lines 33-43: open the package's remote and fetch its root manifest.
FetchRoot ==
  /\ pc = "fetchRoot"
  /\ \E outcome \in {"ok", "newRemoteErr", "fetchErr"} :
       /\ ops' = IF outcome = "newRemoteErr" THEN ops
                 ELSE Append(ops, Call("FetchRoot", i, "", outcome = "ok"))
       /\ IF outcome = "ok"
          THEN /\ root' = RootOf(CurPkg.Repository)
               /\ pc' = "pushSub"
               /\ err' = err
          ELSE /\ root' = root
               /\ pc' = "failed"
               /\ err' = outcome
  /\ UNCHANGED <<configBlob, bundle, signature, refRegistry, i, manifest, layersToCopy, k,
                 dstBlobs, dstRef, selected,
                 fetchVars, runVars>>

\* Variant of PushSubManifest that computes the descriptor without pushing
\* the bytes.
PushSubManifest_NoPush ==
  /\ pc = "pushSub"
  /\ LET dg == SourcePackages[CurPkg.Repository].manifestDigest
         manifestDesc == Desc(dg, ZarfLayerMediaTypeBlob, "")
     IN /\ manifest' = [manifest EXCEPT !.Layers =
                          Append(@, CoerceToManifest(manifestDesc))]
        /\ pc' = "select"
  /\ UNCHANGED <<configBlob, bundle, signature, refRegistry, i, root, layersToCopy, k,
                 dstRef, selected, ops, dstBlobs, err,
                 fetchVars, runVars>>

\* Lines 44-56: push the serialized root manifest into the bundle and append
\* its descriptor, media type coerced to image manifest.
PushSubManifest ==
  /\ pc = "pushSub"
  /\ LET dg == SourcePackages[CurPkg.Repository].manifestDigest
         manifestDesc == Desc(dg, ZarfLayerMediaTypeBlob, "")
     IN \E ok \in BOOLEAN :
          /\ ops' = Append(ops, Call("PushLayer", i, dg, ok))
          /\ IF ok
             THEN /\ dstBlobs' = dstBlobs \cup {dg}
                  /\ manifest' = [manifest EXCEPT !.Layers =
                       Append(@, CoerceToManifest(manifestDesc))]
                  /\ pc' = "select"
                  /\ err' = err
             ELSE /\ UNCHANGED <<dstBlobs, manifest>>
                  /\ pc' = "failed"
                  /\ err' = "pushLayerErr"
  /\ UNCHANGED <<configBlob, bundle, signature, refRegistry, i, root, layersToCopy, k,
                 dstRef, selected,
                 fetchVars, runVars>>

\* Lines 58-77 and 95-98: resolve the layers of the requested components, add
\* the always-pull layers, and choose the transfer path.
SelectLayers ==
  /\ pc = "select"
  /\ \E ok \in BOOLEAN :
       /\ ops' = Append(ops, Call("LayersFromRequestedComponents", i, "", ok))
       /\ IF ok
          THEN LET layersFromComponents ==
                     LayersFromRequestedComponents(CurPkg.Repository,
                                                   CurPkg.OptionalComponents)
                   toCopy == layersFromComponents \o MetadataLayers(root)
               IN /\ selected' = Append(selected, toCopy)
                  /\ IF UseStreamingCopy(SourcePackages[CurPkg.Repository].registry,
                                         refRegistry)
                     THEN /\ layersToCopy' = toCopy
                          /\ pc' = "copy"
                     ELSE /\ layersToCopy' = Append(toCopy, root.config)
                          /\ pc' = "mount"
                  /\ k' = 1
                  /\ err' = err
          ELSE /\ UNCHANGED <<selected, layersToCopy, k>>
               /\ pc' = "failed"
               /\ err' = "layersErr"
  /\ UNCHANGED <<configBlob, bundle, signature, refRegistry, i, root, manifest,
                 dstBlobs, dstRef, fetchVars, runVars>>

\* Lines 78-94: stream copy the layers the filter accepts.
CopyPackage ==
  /\ pc = "copy"
  /\ \E ok \in BOOLEAN :
       /\ ops' = Append(ops, Call("CopyPackage", i, "", ok))
       /\ IF ok
          THEN /\ dstBlobs' = dstBlobs \cup
                    {root.layers[j].digest : j \in
                       {h \in 1..Len(root.layers) : FilterLayers(layersToCopy, root.layers[h])}}
               /\ i' = i + 1
               /\ pc' = AfterPkg(i + 1)
               /\ err' = err
          ELSE /\ UNCHANGED <<dstBlobs, i>>
               /\ pc' = "failed"
               /\ err' = "copyErr"
  /\ UNCHANGED <<configBlob, bundle, signature, refRegistry, root, manifest,
                 layersToCopy, k, dstRef, selected, fetchVars, runVars>>

\* Variant of Mount that falls back to the streaming copy when a mount fails.
Mount_Fallback ==
  /\ pc = "mount"
  /\ k <= Len(layersToCopy)
  /\ LET layer == layersToCopy[k]
     IN \E ok \in BOOLEAN :
          /\ ops' = Append(ops, Call("Mount", i, layer.digest, ok))
          /\ IF ok
             THEN /\ dstBlobs' = dstBlobs \cup {layer.digest}
                  /\ k' = k + 1
                  /\ IF k + 1 > Len(layersToCopy)
                     THEN /\ i' = i + 1
                          /\ pc' = AfterPkg(i + 1)
                     ELSE UNCHANGED <<i, pc>>
             ELSE /\ UNCHANGED <<dstBlobs, k, i>>
                  /\ pc' = "copy"
  /\ UNCHANGED <<configBlob, bundle, signature, refRegistry, root, manifest, layersToCopy,
                 dstRef, selected, err,
                 fetchVars, runVars>>

\* Lines 101-111: one iteration of the mount loop.
Mount ==
  /\ pc = "mount"
  /\ k <= Len(layersToCopy)
  /\ LET layer == layersToCopy[k]
     IN \E ok \in BOOLEAN :
          /\ ops' = Append(ops, Call("Mount", i, layer.digest, ok))
          /\ IF ok
             THEN /\ dstBlobs' = dstBlobs \cup {layer.digest}
                  /\ k' = k + 1
                  /\ IF k + 1 > Len(layersToCopy)
                     THEN /\ i' = i + 1
                          /\ pc' = AfterPkg(i + 1)
                     ELSE UNCHANGED <<i, pc>>
                  /\ err' = err
             ELSE /\ UNCHANGED <<dstBlobs, k, i>>
                  /\ pc' = "failed"
                  /\ err' = "mountErr"
  /\ UNCHANGED <<configBlob, bundle, signature, refRegistry, root, manifest, layersToCopy,
                 dstRef, selected,
                 fetchVars, runVars>>

\* Lines 119-136: push the bundle's metadata, titled uds-bundle.yaml.
PushBundleYaml ==
  /\ pc = "bundleYaml"
  /\ \E ok \in BOOLEAN :
       /\ ops' = Append(ops, Call("PushLayer", 0, "bundle_yaml", ok))
       /\ IF ok
          THEN /\ dstBlobs' = dstBlobs \cup {"bundle_yaml"}
               /\ manifest' = [manifest EXCEPT !.Layers =
                    Append(@, Desc("bundle_yaml", ZarfLayerMediaTypeBlob, BundleYAML))]
               /\ pc' = IF Len(signature) > 0 THEN "signature" ELSE "config"
               /\ err' = err
          ELSE /\ UNCHANGED <<dstBlobs, manifest>>
               /\ pc' = "failed"
               /\ err' = "pushLayerErr"
  /\ UNCHANGED <<configBlob, bundle, signature, refRegistry, i, root, layersToCopy, k,
                 dstRef, selected,
                 fetchVars, runVars>>

\* Variant of PushSignature that ignores the error of the push.
PushSignature_ErrIgnored ==
  /\ pc = "signature"
  /\ \E ok \in BOOLEAN :
       /\ ops' = Append(ops, Call("PushLayer", 0, "bundle_sig", ok))
       /\ dstBlobs' = IF ok THEN dstBlobs \cup {"bundle_sig"} ELSE dstBlobs
       /\ manifest' = [manifest EXCEPT !.Layers =
            Append(@, Desc("bundle_sig", ZarfLayerMediaTypeBlob, BundleYAMLSignature))]
       /\ pc' = "config"
  /\ UNCHANGED <<configBlob, bundle, signature, refRegistry, i, root, layersToCopy, k,
                 dstRef, selected, err,
                 fetchVars, runVars>>

\* Lines 136-146: push the bundle's signature.
PushSignature ==
  /\ pc = "signature"
  /\ \E ok \in BOOLEAN :
       /\ ops' = Append(ops, Call("PushLayer", 0, "bundle_sig", ok))
       /\ IF ok
          THEN /\ dstBlobs' = dstBlobs \cup {"bundle_sig"}
               /\ manifest' = [manifest EXCEPT !.Layers =
                    Append(@, Desc("bundle_sig", ZarfLayerMediaTypeBlob, BundleYAMLSignature))]
               /\ pc' = "config"
               /\ err' = err
          ELSE /\ UNCHANGED <<dstBlobs, manifest>>
               /\ pc' = "failed"
               /\ err' = "pushLayerErr"
  /\ UNCHANGED <<configBlob, bundle, signature, refRegistry, i, root, layersToCopy, k,
                 dstRef, selected,
                 fetchVars, runVars>>

\* Lines 148-158 and 189-204: push the bundle manifest config.
PushConfig ==
  /\ pc = "config"
  /\ \E ok \in BOOLEAN :
       /\ ops' = Append(ops, Call("PushLayer", 0, "bundle_cfg", ok))
       /\ IF ok
          THEN /\ dstBlobs' = dstBlobs \cup {"bundle_cfg"}
               /\ configBlob' = manifestConfig(bundle.Metadata, bundle.Build)
               /\ manifest' = [manifest EXCEPT
                    !.Config = Desc("bundle_cfg", MediaTypeImageConfig, ""),
                    !.SchemaVersion = 2,
                    !.Annotations = manifestAnnotationsFromMetadata(bundle.Metadata)]
               /\ pc' = "pushRef"
               /\ err' = err
          ELSE /\ UNCHANGED <<dstBlobs, manifest, configBlob>>
               /\ pc' = "failed"
               /\ err' = "pushLayerErr"
  /\ UNCHANGED <<bundle, signature, refRegistry, i, root, layersToCopy, k,
                 dstRef, selected,
                 fetchVars, runVars>>

\* Lines 160-185: push the bundle manifest under the target reference.
PushReference ==
  /\ pc = "pushRef"
  /\ \E ok \in BOOLEAN :
       /\ ops' = Append(ops, Call("PushReference", 0, "bundle_manifest", ok))
       /\ IF ok
          THEN /\ dstRef' = manifest
               /\ pc' = "done"
               /\ err' = err
          ELSE /\ dstRef' = dstRef
               /\ pc' = "failed"
               /\ err' = "failed to push manifest"
  /\ UNCHANGED <<configBlob, bundle, signature, refRegistry, i, root, manifest, layersToCopy,
                 k, dstBlobs, selected,
                 fetchVars, runVars>>

Publish ==
  \/ BundleStart
  \/ FetchRoot
  \/ PushSubManifest
  \/ SelectLayers
  \/ CopyPackage
  \/ Mount
  \/ PushBundleYaml
  \/ PushSignature
  \/ PushConfig
  \/ PushReference

----------------------------------------------------------------------------
\* RemoteBundle: a fetch session against the published bundle.

FCall(c, ok) == [call |-> c, ok |-> ok]

\* A RemoteBundle is created for one package sub-manifest digest.
NewRemoteBundle ==
  /\ pc = "done"
  /\ fpc \in {"none", "idle"}
  /\ \E n \in PkgNames : PkgManifestSHA' = SourcePackages[n].manifestDigest
  /\ isPartial' = FALSE
  /\ fpc' = "idle"
  /\ fres' = "none"
  /\ pkgManifestDesc' = EmptyDescriptor
  /\ pkgManifest' = <<>>
  /\ fi' = 1
  /\ layersToPull' = <<>>
  /\ layersInBundle' = <<>>
  /\ cacheUsed' = <<>>
  /\ returned' = <<>>
  /\ fops' = <<>>
  /\ fresDigest' = ""
  /\ validatedPartial' = <<>>
  /\ setLayers' = <<>>
  /\ progress' = "none"
  /\ wg' = 0
  /\ UNCHANGED <<runVars, pubVars, cache>>

\* The cache is populated by a collaborator, between calls.
CachePopulate ==
  /\ pc = "done"
  /\ fpc \in {"none", "idle"}
  /\ \E d \in CacheDigests \ cache : cache' = cache \cup {d}
  /\ UNCHANGED <<runVars, pubVars, PkgManifestSHA, isPartial, fpc, fres, pkgManifestDesc,
                 pkgManifest, fi, layersToPull, layersInBundle, cacheUsed, returned,
                 fops, fresDigest, validatedPartial, setLayers, progress, wg>>

\* Lines 373-383: fetch the bundle's root manifest and locate the package.
DownloadFetchRoot ==
  /\ fpc = "idle"
  /\ \E ok \in BOOLEAN :
       LET desc == Locate(dstRef.Layers, PkgManifestSHA)
       IN /\ fops' = <<FCall("FetchRoot", ok)>>
          /\ IF ok /\ ~IsEmptyDescriptor(desc)
             THEN /\ pkgManifestDesc' = [desc EXCEPT !.mediaType = ZarfLayerMediaTypeBlob]
                  /\ fpc' = "fetchManifest"
                  /\ fres' = "running"
                  /\ fresDigest' = ""
             ELSE /\ pkgManifestDesc' = EmptyDescriptor
                  /\ fpc' = "idle"
                  /\ fres' = IF ok THEN "does not exist in this bundle" ELSE "fetchRootErr"
                  /\ fresDigest' = IF ok THEN PkgManifestSHA ELSE ""
  /\ pkgManifest' = <<>>
  /\ fi' = 1
  /\ layersToPull' = <<>>
  /\ layersInBundle' = <<>>
  /\ cacheUsed' = <<>>
  /\ validatedPartial' = <<>>
  /\ setLayers' = <<>>
  /\ progress' = "none"
  /\ wg' = 0
  /\ UNCHANGED <<runVars, pubVars, cache, PkgManifestSHA, isPartial, returned>>

\* Lines 384-394: fetch the package's sub-manifest.
DownloadFetchManifest ==
  /\ fpc = "fetchManifest"
  /\ \E ok \in BOOLEAN :
       /\ fops' = Append(fops, FCall("FetchManifest", ok))
       /\ IF ok
          THEN /\ pkgManifest' = SubManifestLayers(pkgManifestDesc.digest)
               /\ layersToPull' = <<pkgManifestDesc>>
               /\ layersInBundle' = <<pkgManifestDesc>>
               /\ fpc' = "verify"
               /\ fres' = fres
          ELSE /\ UNCHANGED <<pkgManifest, layersToPull, layersInBundle>>
               /\ fpc' = "idle"
               /\ fres' = "fetchManifestErr"
  /\ fi' = 1
  /\ UNCHANGED <<runVars, pubVars, cache, PkgManifestSHA, isPartial, pkgManifestDesc,
                 cacheUsed, returned, fresDigest, validatedPartial, setLayers,
                 progress, wg>>

\* Lines 396-417: one iteration of the loop over the declared layers.
DownloadVerifyLayer ==
  /\ fpc = "verify"
  /\ fi <= Len(pkgManifest)
  /\ LET layer == pkgManifest[fi]
         ok == layer.digest \in dstBlobs
     IN \E outcome \in {"ok", "existsErr", "cacheUseErr"} :
          CASE outcome = "existsErr" ->
                 /\ fops' = Append(fops, FCall("Exists", FALSE))
                 /\ fpc' = "idle"
                 /\ fres' = "existsErr"
                 /\ UNCHANGED <<fi, layersToPull, layersInBundle, cacheUsed>>
            [] outcome = "cacheUseErr" ->
                 /\ ok /\ CacheHit(layer, cache)
                 /\ fops' = fops \o <<FCall("Exists", TRUE), FCall("cache.Use", FALSE)>>
                 /\ layersInBundle' = Append(layersInBundle, layer)
                 /\ fpc' = "idle"
                 /\ fres' = "cacheUseErr"
                 /\ UNCHANGED <<fi, layersToPull, cacheUsed>>
            [] outcome = "ok" ->
                 /\ fi' = fi + 1
                 /\ UNCHANGED <<fpc, fres>>
                 /\ IF ok
                    THEN /\ layersInBundle' = Append(layersInBundle, layer)
                         /\ IF CacheHit(layer, cache)
                            THEN /\ cacheUsed' = Append(cacheUsed, layer.digest)
                                 /\ layersToPull' = layersToPull
                                 /\ fops' = fops \o <<FCall("Exists", TRUE),
                                                      FCall("cache.Use", TRUE)>>
                            ELSE /\ layersToPull' = Append(layersToPull, layer)
                                 /\ cacheUsed' = cacheUsed
                                 /\ fops' = Append(fops, FCall("Exists", TRUE))
                    ELSE /\ UNCHANGED <<layersInBundle, layersToPull, cacheUsed>>
                         /\ fops' = Append(fops, FCall("Exists", TRUE))
  /\ UNCHANGED <<runVars, pubVars, cache, PkgManifestSHA, isPartial, pkgManifestDesc,
                 pkgManifest, returned, fresDigest, validatedPartial, setLayers,
                 progress, wg>>

\* Lines 418-433: open the local store, start the progress task
\* (wg.Add(1); go RenderProgressBarForLocalDirWrite) and run oras.Copy.
DownloadCopy ==
  /\ fpc = "verify"
  /\ fi > Len(pkgManifest)
  /\ \E outcome \in {"ok", "storeErr", "copyErr"} :
       IF outcome = "storeErr"
       THEN /\ fpc' = "idle"
            /\ fres' = "storeErr"
            /\ UNCHANGED <<progress, wg, fops>>
       ELSE /\ wg' = 1
            /\ progress' = "running"
            /\ fops' = Append(fops, FCall("Copy", outcome = "ok"))
            /\ fpc' = IF outcome = "ok" THEN "sendDone" ELSE "sendErr"
            /\ fres' = fres
  /\ UNCHANGED <<runVars, pubVars, cache, PkgManifestSHA, isPartial, pkgManifestDesc,
                 pkgManifest, fi, layersToPull, layersInBundle, cacheUsed, returned,
                 fresDigest, validatedPartial, setLayers>>

\* Variant of DownloadSignal without the return of line 436: after errChan <- 1
\* the function falls through to doneSaving <- 1.
DownloadSignal_NoReturnOnError ==
  /\ fpc \in {"sendDone", "sendErr"}
  /\ progress = "running"
  /\ progress' = "received"
  /\ fpc' = IF fpc = "sendErr" THEN "sendDone" ELSE "wait"
  /\ fres' = fres
  /\ UNCHANGED <<runVars, pubVars, cache, PkgManifestSHA, isPartial, pkgManifestDesc,
                 pkgManifest, fi, layersToPull, layersInBundle, cacheUsed, returned,
                 fops, fresDigest, validatedPartial, setLayers, wg>>

\* Lines 434-438: the send on errChan or doneSaving. Both channels are
\* unbuffered, so the send completes together with the receive in the progress
\* task. After errChan <- 1 the function goes on to return the error (line
\* 436); after doneSaving <- 1 it goes on to wg.Wait().
DownloadSignal ==
  /\ fpc \in {"sendDone", "sendErr"}
  /\ progress = "running"
  /\ progress' = "received"
  /\ fpc' = IF fpc = "sendErr" THEN "retErr" ELSE "wait"
  /\ fres' = fres
  /\ UNCHANGED <<runVars, pubVars, cache, PkgManifestSHA, isPartial, pkgManifestDesc,
                 pkgManifest, fi, layersToPull, layersInBundle, cacheUsed, returned,
                 fops, fresDigest, validatedPartial, setLayers, wg>>

\* The progress task, after its receive: it stops the progress bar, calls
\* wg.Done() and returns.
ProgressTaskDone ==
  /\ progress = "received"
  /\ progress' = "terminated"
  /\ wg' = 0
  /\ UNCHANGED <<runVars, pubVars, cache, PkgManifestSHA, isPartial, fpc, fres,
                 pkgManifestDesc, pkgManifest, fi, layersToPull, layersInBundle,
                 cacheUsed, returned, fops, fresDigest, validatedPartial, setLayers>>

\* Line 436: after errChan <- 1 the function returns the copy error. There is
\* no wg.Wait() on this path: the return does not wait for the progress task.
DownloadReturnErr ==
  /\ fpc = "retErr"
  /\ fpc' = "idle"
  /\ fres' = "copyErr"
  /\ UNCHANGED <<runVars, pubVars, cache, PkgManifestSHA, isPartial, pkgManifestDesc,
                 pkgManifest, fi, layersToPull, layersInBundle, cacheUsed, returned,
                 fops, fresDigest, validatedPartial, setLayers, progress, wg>>

\* Lines 439-444: wg.Wait(), then set the partiality flag and return the
\* layers in the bundle.
DownloadReturn ==
  /\ fpc = "wait"
  /\ wg = 0
  /\ isPartial' = IF Len(pkgManifest) > Len(layersInBundle) THEN TRUE ELSE isPartial
  /\ returned' = layersInBundle
  /\ fres' = "ok"
  /\ fpc' = "idle"
  /\ UNCHANGED <<runVars, pubVars, cache, PkgManifestSHA, pkgManifestDesc, pkgManifest, fi,
                 layersToPull, layersInBundle, cacheUsed, fops, fresDigest,
                 validatedPartial, setLayers, progress, wg>>

\* Lines 315-322 of LoadPackageMetadata: fetch the bundle's root manifest and
\* locate the package.
MetadataFetchRoot ==
  /\ fpc = "idle"
  /\ \E ok \in BOOLEAN :
       LET desc == Locate(dstRef.Layers, PkgManifestSHA)
       IN /\ fops' = <<FCall("FetchRoot", ok)>>
          /\ IF ok /\ ~IsEmptyDescriptor(desc)
             THEN /\ pkgManifestDesc' = desc
                  /\ fpc' = "mFetchManifest"
                  /\ fres' = "running"
                  /\ fresDigest' = ""
             ELSE /\ pkgManifestDesc' = EmptyDescriptor
                  /\ fpc' = "idle"
                  /\ fres' = IF ok THEN "not found" ELSE "fetchRootErr"
                  /\ fresDigest' = IF ok THEN PkgManifestSHA ELSE ""
  /\ pkgManifest' = <<>>
  /\ fi' = 1
  /\ layersToPull' = <<>>
  /\ layersInBundle' = <<>>
  /\ cacheUsed' = <<>>
  /\ validatedPartial' = <<>>
  /\ setLayers' = <<>>
  /\ progress' = "none"
  /\ wg' = 0
  /\ UNCHANGED <<runVars, pubVars, cache, PkgManifestSHA, isPartial, returned>>

\* Line 325: fetch the package's sub-manifest. The error of FetchManifest is
\* assigned and never tested: when the call fails the function goes on to line
\* 327 with what FetchManifest returned, a nil manifest (reading its Layers
\* panics) or an empty one.
MetadataFetchManifest ==
  /\ fpc = "mFetchManifest"
  /\ \E outcome \in {"ok", "errNil", "errEmpty"} :
       /\ fops' = Append(fops, FCall("FetchManifest", outcome = "ok"))
       /\ CASE outcome = "ok" ->
                 /\ pkgManifest' = SubManifestLayers(pkgManifestDesc.digest)
                 /\ fpc' = "mZarfYaml"
                 /\ fres' = fres
            [] outcome = "errNil" ->
                 /\ pkgManifest' = pkgManifest
                 /\ fpc' = "panicked"
                 /\ fres' = "panic"
            [] outcome = "errEmpty" ->
                 /\ pkgManifest' = <<>>
                 /\ fpc' = "mZarfYaml"
                 /\ fres' = fres
  /\ UNCHANGED <<runVars, pubVars, cache, PkgManifestSHA, isPartial, pkgManifestDesc, fi,
                 layersToPull, layersInBundle, cacheUsed, returned, fresDigest,
                 validatedPartial, setLayers, progress, wg>>

\* Lines 326-341: find the layer titled zarf.yaml (the zero descriptor when
\* there is none), fetch it, parse it and write it to dst. The error of
\* WriteYaml is assigned and overwritten at line 362 without being tested.
MetadataFetchZarfYaml ==
  /\ fpc = "mZarfYaml"
  /\ LET zarfYAMLDesc == Locate(pkgManifest, ZarfYAML)
     IN \E outcome \in {"ok", "fetchLayerErr", "unmarshalErr", "writeYamlErr"} :
          /\ IsEmptyDescriptor(zarfYAMLDesc) => outcome = "fetchLayerErr"
          /\ CASE outcome = "fetchLayerErr" ->
                    /\ fops' = Append(fops, FCall("FetchLayer", FALSE))
                    /\ fpc' = "idle"
                    /\ fres' = "fetchLayerErr"
               [] outcome = "unmarshalErr" ->
                    /\ fops' = Append(fops, FCall("FetchLayer", TRUE))
                    /\ fpc' = "idle"
                    /\ fres' = "unmarshalErr"
               [] outcome \in {"ok", "writeYamlErr"} ->
                    /\ fops' = fops \o <<FCall("FetchLayer", TRUE),
                                         FCall("WriteYaml", outcome = "ok")>>
                    /\ fpc' = "mChecksums"
                    /\ fres' = fres
  /\ UNCHANGED <<runVars, pubVars, cache, PkgManifestSHA, isPartial, pkgManifestDesc,
                 pkgManifest, fi, layersToPull, layersInBundle, cacheUsed, returned,
                 fresDigest, validatedPartial, setLayers, progress, wg>>

\* Lines 343-360: fetch and write the layer titled checksums.txt when the
\* sub-manifest has one, then dst.SetFromLayers with the sub-manifest
\* descriptor and the checksum layer (the zero descriptor when there is none).
MetadataFetchChecksums ==
  /\ fpc = "mChecksums"
  /\ LET checksumLayer == Locate(pkgManifest, ChecksumsTxt)
     IN IF IsEmptyDescriptor(checksumLayer)
        THEN /\ setLayers' = <<pkgManifestDesc, EmptyDescriptor>>
             /\ fpc' = "mValidate"
             /\ UNCHANGED <<fops, fres>>
        ELSE \E outcome \in {"ok", "fetchLayerErr", "writeFileErr"} :
               /\ fops' = IF outcome = "fetchLayerErr"
                          THEN Append(fops, FCall("FetchLayer", FALSE))
                          ELSE fops \o <<FCall("FetchLayer", TRUE),
                                         FCall("WriteFile", outcome = "ok")>>
               /\ IF outcome = "ok"
                  THEN /\ setLayers' = <<pkgManifestDesc, checksumLayer>>
                       /\ fpc' = "mValidate"
                       /\ fres' = fres
                  ELSE /\ setLayers' = setLayers
                       /\ fpc' = "idle"
                       /\ fres' = outcome
  /\ UNCHANGED <<runVars, pubVars, cache, PkgManifestSHA, isPartial, pkgManifestDesc,
                 pkgManifest, fi, layersToPull, layersInBundle, cacheUsed, returned,
                 fresDigest, validatedPartial, progress, wg>>

\* Variant of MetadataIsPartialArg that passes the session's partiality flag.
MetadataIsPartialArg_Session == isPartial

\* The argument LoadPackageMetadata gives ValidatePackageIntegrity as isPartial.
MetadataIsPartialArg == TRUE

\* Variant of MetadataValidate that clears the session's partiality flag.
MetadataValidate_ResetsFlag ==
  /\ fpc = "mValidate"
  /\ validatedPartial' = <<MetadataIsPartialArg>>
  /\ isPartial' = FALSE
  /\ \E ok \in BOOLEAN :
       /\ fops' = Append(fops, FCall("ValidatePackageIntegrity", ok))
       /\ fres' = IF ok THEN "metadataOk" ELSE "integrityErr"
  /\ fpc' = "idle"
  /\ UNCHANGED <<runVars, pubVars, cache, PkgManifestSHA, pkgManifestDesc,
                 pkgManifest, fi, layersToPull, layersInBundle, cacheUsed, returned,
                 fresDigest, setLayers, progress, wg>>

\* Lines 362-363: validate the package integrity and return its result.
MetadataValidate ==
  /\ fpc = "mValidate"
  /\ validatedPartial' = <<MetadataIsPartialArg>>
  /\ \E ok \in BOOLEAN :
       /\ fops' = Append(fops, FCall("ValidatePackageIntegrity", ok))
       /\ fres' = IF ok THEN "metadataOk" ELSE "integrityErr"
  /\ fpc' = "idle"
  /\ UNCHANGED <<runVars, pubVars, cache, PkgManifestSHA, isPartial, pkgManifestDesc,
                 pkgManifest, fi, layersToPull, layersInBundle, cacheUsed, returned,
                 fresDigest, setLayers, progress, wg>>

Fetch ==
  \/ MetadataFetchRoot
  \/ MetadataFetchManifest
  \/ MetadataFetchZarfYaml
  \/ MetadataFetchChecksums
  \/ MetadataValidate
  \/ NewRemoteBundle
  \/ CachePopulate
  \/ DownloadFetchRoot
  \/ DownloadFetchManifest
  \/ DownloadVerifyLayer
  \/ DownloadCopy
  \/ DownloadSignal
  \/ DownloadReturnErr
  \/ ProgressTaskDone
  \/ DownloadReturn

Next == Publish \/ Fetch

----------------------------------------------------------------------------
\* Run (runner.go), one action per step of the call. An error is returned
\* through every caller unchanged (lines 44, 65, 71, 187-198), so the step that
\* finds it ends the call.

\* The bundle when Bundle is not called.
NoBundle ==
  [Metadata |-> [Architecture |-> "", Name |-> "", Description |-> "", URL |-> "",
                 Authors |-> "", Documentation |-> "", Source |-> "", Vendor |-> ""],
   Build |-> [Architecture |-> ""],
   ZarfPackages |-> <<>>]

\* Run is called for the first task of the file or for a task it does not
\* have, with a tasks file of MaxActions actions at most, each a plain command
\* or a task reference, or with a tasks file of RetryFiles.
InitRun ==
  /\ bundle = NoBundle
  /\ signature = <<>>
  /\ refRegistry = "regA"
  /\ BundlerLocals
  /\ \/ \E n \in 0..MaxActions : \E owners \in Owners(n) :
          \E acts \in [1..n -> GraphActions] : tasksFile = FileOf(owners, acts)
     \/ tasksFile \in RetryFiles
  /\ taskName \in {TaskNames[1], MissingTask}
  /\ rpc = "start"
  /\ RunnerLocals

\* The executeTask call on top of the stack, its task's actions, and the
\* action its loop of line 69 is at.
Top == stack[Len(stack)]

TopActions == getTask(tasksFile, Top.task).Actions

TopAction == TopActions[Top.idx]

\* The caller's loop goes on to its next action.
Advance(frames) == [frames EXCEPT ![Len(frames)].idx = @ + 1]

Pop(frames) == SubSeq(frames, 1, Len(frames) - 1)

\* Lines 35-49: build the runner, find the task and execute it.
RunStart ==
  /\ rpc = "start"
  /\ IF HasTask(tasksFile, taskName)
     THEN /\ stack' = <<Frame(taskName)>>
          /\ rpc' = "exec"
          /\ rerr' = rerr
     ELSE /\ stack' = stack
          /\ rpc' = "returned"
          /\ rerr' = "task name not found"
  /\ UNCHANGED <<pubVars, fetchVars, tasksFile, taskName, TaskNameMap, cstack, cfg,
                 remaining, timer, attemptLog, timeoutSeenAt>>

\* Lines 69-74 and 201: the task has no action left, executeTask returns nil,
\* to Run or to the performAction that called it.
ExecuteTaskReturn ==
  /\ rpc = "exec"
  /\ Top.idx > Len(TopActions)
  /\ IF Len(stack) = 1
     THEN /\ stack' = <<>>
          /\ rpc' = "returned"
     ELSE /\ stack' = Advance(Pop(stack))
          /\ rpc' = rpc
  /\ UNCHANGED <<pubVars, fetchVars, tasksFile, taskName, TaskNameMap, rerr, cstack,
                 cfg, remaining, timer, attemptLog, timeoutSeenAt>>

\* Lines 184-189: the action references a task: find it and call
\* checkForTaskLoops on it.
PerformTaskReference ==
  /\ rpc = "exec"
  /\ Top.idx <= Len(TopActions)
  /\ TopAction.TaskReference # ""
  /\ IF HasTask(tasksFile, TopAction.TaskReference)
     THEN /\ cstack' = <<Frame(TopAction.TaskReference)>>
          /\ rpc' = "check"
          /\ rerr' = rerr
     ELSE /\ cstack' = cstack
          /\ rpc' = "returned"
          /\ rerr' = "task name not found"
  /\ UNCHANGED <<pubVars, fetchVars, tasksFile, taskName, TaskNameMap, stack, cfg,
                 remaining, timer, attemptLog, timeoutSeenAt>>

\* Lines 205-219: one iteration of the loop of checkForTaskLoops in the
\* innermost call. The recursion is cut at MaxDepth calls.
CheckForTaskLoops ==
  /\ rpc = "check"
  /\ LET top == cstack[Len(cstack)]
         actions == getTask(tasksFile, top.task).Actions
     IN /\ top.idx <= Len(actions)
        /\ LET reference == actions[top.idx].TaskReference
           IN IF reference = ""
              THEN /\ cstack' = Advance(cstack)
                   /\ UNCHANGED <<TaskNameMap, rpc, rerr>>
              ELSE IF LoopDetected(TaskNameMap, reference)
              THEN /\ rpc' = "returned"
                   /\ rerr' = "task loop detected"
                   /\ UNCHANGED <<TaskNameMap, cstack>>
              ELSE /\ TaskNameMap' = TaskNameMap \cup {reference}
                   /\ IF HasTask(tasksFile, reference)
                      THEN /\ Len(cstack) < MaxDepth
                           /\ cstack' = Append(cstack, Frame(reference))
                           /\ UNCHANGED <<rpc, rerr>>
                      ELSE /\ rpc' = "returned"
                           /\ rerr' = "task name not found"
                           /\ cstack' = cstack
  /\ UNCHANGED <<pubVars, fetchVars, tasksFile, taskName, stack, cfg, remaining,
                 timer, attemptLog, timeoutSeenAt>>

\* Lines 221 and 192: the innermost checkForTaskLoops call returns nil, to the
\* call that made it or to performAction, which goes on to execute the
\* referenced task. The recursion of executeTask is cut at MaxDepth calls.
CheckForTaskLoopsReturn ==
  /\ rpc = "check"
  /\ LET top == cstack[Len(cstack)]
     IN /\ top.idx > Len(getTask(tasksFile, top.task).Actions)
        /\ IF Len(cstack) = 1
           THEN /\ Len(stack) < MaxDepth
                /\ stack' = Append(stack, Frame(top.task))
                /\ cstack' = <<>>
                /\ rpc' = "exec"
           ELSE /\ cstack' = Advance(Pop(cstack))
                /\ UNCHANGED <<stack, rpc>>
  /\ UNCHANGED <<pubVars, fetchVars, tasksFile, taskName, TaskNameMap, rerr, cfg,
                 remaining, timer, attemptLog, timeoutSeenAt>>

\* The test of the loop of line 293.
LoopOrFinish(rem) == IF rem > 0 THEN "action" ELSE "final"

\* Lines 196 and 224-293: the action is a command: convert a wait to a command
\* (which fails when the wait names neither a cluster nor a network), get cfg,
\* start the timer and enter the retry loop.
PerformZarfAction ==
  /\ rpc = "exec"
  /\ Top.idx <= Len(TopActions)
  /\ TopAction.TaskReference = ""
  /\ \E waitOk \in BOOLEAN :
       /\ ~TopAction.Wait => waitOk
       /\ IF waitOk
          THEN /\ cfg' = ActionCfg(TopAction)
               /\ remaining' = InitialRemaining(ActionCfg(TopAction))
               /\ timer' = "pending"
               /\ attemptLog' = <<>>
               /\ timeoutSeenAt' = <<>>
               /\ rpc' = LoopOrFinish(InitialRemaining(ActionCfg(TopAction)))
               /\ rerr' = rerr
          ELSE /\ rpc' = "returned"
               /\ rerr' = "wait action is missing a cluster or network"
               /\ UNCHANGED <<cfg, remaining, timer, attemptLog, timeoutSeenAt>>
  /\ UNCHANGED <<pubVars, fetchVars, tasksFile, taskName, TaskNameMap, stack, cstack>>

\* The timer of line 290 fires: a value is in the channel of time.After.
TimerFires ==
  /\ rpc \in {"action", "final"}
  /\ timer = "pending"
  /\ timer' = "fired"
  /\ UNCHANGED <<pubVars, fetchVars, tasksFile, taskName, TaskNameMap, rpc, rerr,
                 stack, cstack, cfg, remaining, attemptLog, timeoutSeenAt>>

\* Lines 296-339 and 349-356: one attempt of the command, with no timeout set
\* or in the default case of the select. A successful attempt returns nil to
\* the loop of executeTask; a failed one continues the retry loop. The command
\* is taken to return.
ZarfAttempt ==
  /\ rpc = "action"
  /\ cfg.MaxTotalSeconds < 1 \/ timer # "fired"
  /\ \E ok \in BOOLEAN :
       /\ attemptLog' = Append(attemptLog, ok)
       /\ IF ok
          THEN /\ stack' = Advance(stack)
               /\ rpc' = "exec"
               /\ remaining' = remaining
          ELSE /\ stack' = stack
               /\ remaining' = remaining - 1
               /\ rpc' = LoopOrFinish(remaining - 1)
  /\ UNCHANGED <<pubVars, fetchVars, tasksFile, taskName, TaskNameMap, rerr, cstack,
                 cfg, timer, timeoutSeenAt>>

\* Lines 343-346: the select receives from the timer; its break leaves the
\* select, and the for loop goes on with remaining - 1.
ZarfTimeoutObserved ==
  /\ rpc = "action"
  /\ cfg.MaxTotalSeconds >= 1
  /\ timer = "fired"
  /\ timer' = "drained"
  /\ timeoutSeenAt' = <<Len(attemptLog)>>
  /\ remaining' = remaining - 1
  /\ rpc' = LoopOrFinish(remaining - 1)
  /\ UNCHANGED <<pubVars, fetchVars, tasksFile, taskName, TaskNameMap, rerr, stack,
                 cstack, cfg, attemptLog>>

\* Lines 360-368: after the loop, the timed-out error when the select receives
\* from the timer, else the retries error.
ZarfFinish ==
  /\ rpc = "final"
  /\ IF timer = "fired"
     THEN /\ timer' = "drained"
          /\ rerr' = "timed out"
     ELSE /\ timer' = timer
          /\ rerr' = "failed after retries"
  /\ rpc' = "returned"
  /\ UNCHANGED <<pubVars, fetchVars, tasksFile, taskName, TaskNameMap, stack, cstack,
                 cfg, remaining, attemptLog, timeoutSeenAt>>

\* The steps of the goroutine that calls Run.
RunStep ==
  \/ RunStart
  \/ ExecuteTaskReturn
  \/ PerformTaskReference
  \/ CheckForTaskLoops
  \/ CheckForTaskLoopsReturn
  \/ PerformZarfAction
  \/ ZarfAttempt
  \/ ZarfTimeoutObserved
  \/ ZarfFinish

NextRun == RunStep \/ TimerFires

----------------------------------------------------------------------------
\* Properties of Bundle (publish)

OpIdx == 1..Len(ops)

PushRefCalls == {j \in OpIdx : ops[j].call = "PushReference"}

RegistryOf(p) == SourcePackages[bundle.ZarfPackages[p].Repository].registry

\* C1: a bundle whose Metadata.Architecture is empty is rejected with the
\* architecture error, and no registry call is issued for it: the call log
\* stays empty and the destination repository is untouched.
C1_EmptyArchitectureRejected ==
  bundle.Metadata.Architecture = "" =>
    /\ pc \in {"start", "failed"}
    /\ pc = "failed" => err = "architecture is required for bundling"
    /\ ops = <<>>
    /\ dstBlobs = {}
    /\ dstRef = NoManifest

C1_Witness ==
  /\ bundle.Metadata.Architecture = ""
  /\ NumPkgs > 0
  /\ pc = "failed"

\* C2: once any step before the final push has failed (a registry call that
\* returned an error, or the call has returned an error other than the one of
\* the final push), the target reference still holds what it held before and
\* no push of the bundle manifest has been issued.
C2_FailureNeverPublishes ==
  (\/ \E j \in OpIdx : ~ops[j].ok /\ ops[j].call # "PushReference"
   \/ pc = "failed" /\ err # "failed to push manifest")
  => /\ dstRef = NoManifest
     /\ PushRefCalls = {}
     /\ pc # "done"

C2_Witness ==
  /\ pc = "failed"
  /\ err = "pushLayerErr"
  /\ NumPkgs > 0
  /\ Len(manifest.Layers) > NumPkgs
  /\ dstBlobs # {}
  /\ dstRef = NoManifest

\* C3: the bundle manifest is pushed under the reference at most once, exactly
\* once (successfully) when the call succeeds; the push is the last registry
\* call of the run; and when it is issued every layer descriptor and the config
\* descriptor of the manifest name a blob of the destination repository.
C3_SinglePublicationPoint ==
  /\ Cardinality(PushRefCalls) <= 1
  /\ pc = "done" => /\ Cardinality(PushRefCalls) = 1
                    /\ ops[Len(ops)].ok
                    /\ dstRef = manifest
  /\ \A j \in PushRefCalls :
       /\ j = Len(ops)
       /\ Len(manifest.Layers) >= NumPkgs + 1
       /\ DigestsOf(manifest.Layers) \subseteq dstBlobs
       /\ manifest.Config.digest \in dstBlobs

C3_Witness ==
  /\ pc = "done"
  /\ NumPkgs = 2
  /\ Len(signature) > 0

\* The layer list the claim describes, computed from the bundle alone.
ExpectedLayers ==
  [j \in 1..NumPkgs |->
     Desc(SourcePackages[bundle.ZarfPackages[j].Repository].manifestDigest,
          MediaTypeImageManifest, "")]
  \o << Desc("bundle_yaml", ZarfLayerMediaTypeBlob, "uds-bundle.yaml") >>
  \o (IF Len(signature) > 0
      THEN << Desc("bundle_sig", ZarfLayerMediaTypeBlob, "uds-bundle.yaml.sig") >>
      ELSE << >>)

\* C4: after a successful publish the manifest under the reference lists the
\* packages' sub-manifest descriptors in package-list order, each typed as an
\* image manifest, then the uds-bundle.yaml layer, then the signature layer
\* exactly when a signature was given; its schema version is 2.
C4_ManifestLayout ==
  pc = "done" =>
    /\ dstRef.Layers = ExpectedLayers
    /\ dstRef.SchemaVersion = 2

C4_Witness ==
  /\ pc = "done"
  /\ NumPkgs = 2
  /\ bundle.ZarfPackages[1].Repository # bundle.ZarfPackages[2].Repository
  /\ Len(signature) > 0

\* C5: a mount is only ever issued for a package whose registry equals the
\* destination registry and a streaming copy only for one whose registry
\* differs; a package whose transfer is complete has had exactly its path:
\* one successful copy, or one mount per entry of its list.
C5_PathByRegistryOnly ==
  /\ \A j \in OpIdx :
       /\ ops[j].call = "Mount" => RegistryOf(ops[j].pkg) = refRegistry
       /\ ops[j].call = "CopyPackage" => RegistryOf(ops[j].pkg) # refRegistry
  /\ \A p \in 1..NumPkgs : p < i =>
       LET mounts == {j \in OpIdx : ops[j].call = "Mount" /\ ops[j].pkg = p}
           copies == {j \in OpIdx : ops[j].call = "CopyPackage" /\ ops[j].pkg = p}
       IN IF RegistryOf(p) = refRegistry
          THEN copies = {} /\ Cardinality(mounts) = Len(selected[p]) + 1
          ELSE mounts = {} /\ Cardinality(copies) = 1

C5_Witness ==
  /\ pc = "done"
  /\ NumPkgs = 2
  /\ RegistryOf(1) = refRegistry
  /\ RegistryOf(2) # refRegistry

\* C6: a failed mount is the last registry call of the run: the call has
\* returned the mount error, no copy, mount or package follows it and the
\* bundle manifest is not pushed.
C6_MountFailureIsTerminal ==
  \A j \in OpIdx :
    (ops[j].call = "Mount" /\ ~ops[j].ok) =>
      /\ j = Len(ops)
      /\ pc = "failed"
      /\ err = "mountErr"
      /\ dstRef = NoManifest

C6_Witness ==
  /\ pc = "failed"
  /\ err = "mountErr"
  /\ k < Len(layersToCopy)
  /\ i < NumPkgs
  /\ ops[Len(ops)].call = "Mount"

\* C7: within one package's transfer no digest is mounted more than once and
\* at most one copy is issued.
C7_AtMostOneTransferPerDigest ==
  \A p \in 1..NumPkgs :
    /\ \A d \in dstBlobs \cup DigestsOf(layersToCopy) :
         Cardinality({j \in OpIdx : /\ ops[j].call = "Mount"
                                    /\ ops[j].pkg = p
                                    /\ ops[j].digest = d}) <= 1
    /\ Cardinality({j \in OpIdx : ops[j].call = "CopyPackage" /\ ops[j].pkg = p}) <= 1

----------------------------------------------------------------------------
\* Properties of the fetch session

\* The declared layers of the package whose blob is in the bundle repository.
PresentLayers == {j \in 1..Len(pkgManifest) : pkgManifest[j].digest \in dstBlobs}

Occurrences(seq, x) == Cardinality({j \in 1..Len(seq) : seq[j] = x})

\* C8: after a successful download on a new session the partiality flag is
\* true exactly when fewer layers are present in the bundle than the package's
\* sub-manifest declares.
C8_PartialIffFewerPresent ==
  (fpc = "idle" /\ fres = "ok") =>
    (isPartial <=> Cardinality(PresentLayers) < Len(pkgManifest))

\* C9: while the download step runs, of the declared layers already examined,
\* a present image-blob layer whose digest is cached is taken from the cache
\* and not queued; any other present layer is queued exactly once; an absent
\* layer is neither queued nor taken from the cache.
C9_CacheHitsNotQueued ==
  fpc = "verify" =>
    \A j \in 1..Len(pkgManifest) : j < fi =>
      LET layer == pkgManifest[j]
          present == layer.digest \in dstBlobs
          hit == /\ layer.title \in {"images/blobs/sha256/bx", "images/blobs/sha256/by"}
                 /\ layer.digest \in cache
          used == \E h \in 1..Len(cacheUsed) : cacheUsed[h] = layer.digest
      IN /\ (present /\ hit) => (used /\ Occurrences(layersToPull, layer) = 0)
         /\ (present /\ ~hit) => Occurrences(layersToPull, layer) = 1
         /\ ~present => (~used /\ Occurrences(layersToPull, layer) = 0)

C9_Witness ==
  /\ fpc = "verify"
  /\ fi > Len(pkgManifest)
  /\ cacheUsed = <<"bx">>
  /\ "a_core" \in cache
  /\ Len(layersToPull) > 1
  /\ Cardinality(PresentLayers) < Len(pkgManifest)

\* The bundle entry whose sub-manifest the session addresses.
SessionPkg == CHOOSE p \in 1..NumPkgs :
  SourcePackages[bundle.ZarfPackages[p].Repository].manifestDigest = PkgManifestSHA

DistinctPackages ==
  \A p, q \in 1..NumPkgs :
    bundle.ZarfPackages[p].Repository = bundle.ZarfPackages[q].Repository => p = q

\* C10: for a published bundle of distinct packages, the layers a successful
\* fetch of a package returns (after the sub-manifest descriptor that heads
\* the list) have exactly the digests selected for that package at publish.
C10_RoundTrip ==
  (fpc = "idle" /\ fres = "ok" /\ DistinctPackages) =>
    DigestsOf(Tail(returned)) = DigestsOf(selected[SessionPkg])

\* The session addresses a digest the bundle's root manifest does not list.
PackageAbsent ==
  /\ fpc # "none"
  /\ \A j \in 1..Len(dstRef.Layers) : dstRef.Layers[j].digest # PkgManifestSHA

NotFoundErrors == {"not found", "does not exist in this bundle"}

\* C11: on a session whose package digest is not in the bundle's root
\* manifest, a call of LoadPackageMetadata or of the download step whose
\* FetchRoot succeeded has returned a not-found error that names the digest;
\* no call on the session issues anything but FetchRoot, touches the cache,
\* starts a download or sets the partiality flag.
C11_AbsentPackageNotFound ==
  PackageAbsent =>
    /\ fpc = "idle"
    /\ fres \in NotFoundErrors \cup {"none", "fetchRootErr"}
    /\ fops = <<FCall("FetchRoot", TRUE)>> =>
         (fres \in NotFoundErrors /\ fresDigest = PkgManifestSHA)
    /\ \A j \in 1..Len(fops) : fops[j].call = "FetchRoot"
    /\ pkgManifest = <<>>
    /\ layersToPull = <<>>
    /\ cacheUsed = <<>>
    /\ progress = "none"
    /\ isPartial = FALSE

C11_Witness ==
  /\ PackageAbsent
  /\ NumPkgs > 0
  /\ fres = "does not exist in this bundle"
  /\ fresDigest = PkgManifestSHA
  /\ cache # {}

\* C12: when the download step returns, with the layers or with the copy
\* error, the progress task has terminated and signalled the wait group.
C12_ProgressTaskTerminatedAtReturn ==
  (fpc = "idle" /\ fres \in {"ok", "copyErr"}) =>
    (progress = "terminated" /\ wg = 0)

\* C13: the partiality flag is false before any session and when a session is
\* constructed, and within a session it only ever changes from false to true,
\* in the return of the download step; no step of LoadPackageMetadata and no
\* failing call changes it.
C13_PartialFlagMonotone ==
  /\ [](fpc = "none" => isPartial = FALSE)
  /\ [][NewRemoteBundle => isPartial' = FALSE]_vars
  /\ [][isPartial' # isPartial =>
          (NewRemoteBundle \/ (DownloadReturn /\ isPartial' = TRUE))]_vars

\* The flag is set and a later LoadPackageMetadata call on the same session has
\* completed.
C13_Witness ==
  /\ isPartial = TRUE
  /\ fpc = "idle"
  /\ fres \in {"metadataOk", "integrityErr"}

\* LoadPackageMetadata has called ValidatePackageIntegrity in the current call.
MetadataValidated ==
  \E j \in 1..Len(fops) : fops[j].call = "ValidatePackageIntegrity"

\* C14 as stated: LoadPackageMetadata calls the integrity validator with
\* partial = false, whatever the session's partiality flag is.
C14_ValidatesAsNonPartial ==
  MetadataValidated => validatedPartial = <<FALSE>>

\* C14, amended: LoadPackageMetadata calls the integrity validator with
\* partial = true, whatever the session's partiality flag is.
C14_ValidatesAsPartial ==
  MetadataValidated => validatedPartial = <<TRUE>>

\* The validator was called on a session whose partiality flag is false.
C14_Witness ==
  /\ MetadataValidated
  /\ isPartial = FALSE
  /\ fres = "metadataOk"

\* The keys of an annotation map whose metadata field is empty.
EmptyFieldKeys(annotations) ==
  {key \in DOMAIN annotations : MetadataField(bundle.Metadata, key) = ""}

\* C15: in the published bundle, an annotation key of the manifest or of the
\* config blob is present only if its metadata field is not empty.
C15_NoAnnotationForEmptyField ==
  pc = "done" =>
    /\ EmptyFieldKeys(dstRef.Annotations) = {}
    /\ EmptyFieldKeys(configBlob.Annotations) = {}

SeqRange(s) == {s[j] : j \in 1..Len(s)}

\* The always-pull paths a source package has no layer for.
MissingAlwaysPull(name) ==
  {path \in SeqRange(PackageAlwaysPull) :
     \A j \in 1..Len(SourcePackages[name].layers) :
       SourcePackages[name].layers[j].title # path}

\* C16: the layers selected for a package are the layers the resolver
\* returned for its requested components together with the layer of every
\* always-pull path its root manifest has one for; an always-pull path with no
\* layer adds nothing, and the selection fails only when the resolver fails.
C16_SelectedLayers ==
  /\ \A p \in 1..Len(selected) :
       LET pkg == bundle.ZarfPackages[p]
           layers == SourcePackages[pkg.Repository].layers
           resolved == LayersFromRequestedComponents(pkg.Repository,
                                                     pkg.OptionalComponents)
           located == {layer \in SeqRange(layers) :
                         layer.title \in SeqRange(PackageAlwaysPull)}
       IN /\ SeqRange(selected[p]) = SeqRange(resolved) \cup located
          /\ \A j \in 1..Len(selected[p]) : ~IsEmptyDescriptor(selected[p][j])
          /\ Len(selected[p]) = Len(resolved) + Cardinality(located)
  /\ \A j \in 1..Len(ops) :
       (ops[j].call = "LayersFromRequestedComponents" /\ ops[j].ok) =>
         Len(selected) >= ops[j].pkg
  /\ (pc = "failed" /\ err = "layersErr") =>
       ops[Len(ops)] = Call("LayersFromRequestedComponents", i, "", FALSE)

\* A package that lacks two of the always-pull files and requests its
\* optional component has been selected, and the publish went through.
C16_Witness ==
  /\ pc = "done"
  /\ \E p \in 1..Len(selected) :
       /\ bundle.ZarfPackages[p].OptionalComponents = {"opt"}
       /\ Cardinality(MissingAlwaysPull(bundle.ZarfPackages[p].Repository)) = 2

\* The digests of the Mount calls issued for package p, in order.
MountedDigests(p) ==
  LET IsMountOfP(o) == o.call = "Mount" /\ o.pkg = p
      mounts == SelectSeq(ops, IsMountOfP)
  IN [j \in 1..Len(mounts) |-> mounts[j].digest]

\* The digests of a sequence of descriptors, in order.
DigestSeq(layers) == [j \in 1..Len(layers) |-> layers[j].digest]

IsPrefix(s, t) == Len(s) <= Len(t) /\ s = SubSeq(t, 1, Len(s))

\* Every blob of a source repository, under its own descriptor and under a
\* descriptor with the same digest and no title.
SourceBlobs(name) ==
  LET own == SeqRange(SourcePackages[name].layers) \cup {SourcePackages[name].config}
  IN own \cup {Desc(d.digest, MediaTypeImageManifest, "") : d \in own}

\* C17: for a package in the destination's registry (the pkg field of a Mount
\* call is the package whose repository the blob is mounted from) the mounts
\* issued are, in order, the selected layers and then the source package's
\* config blob; for a package in another registry the list given to the copy
\* filter is the selected layers without the config blob, and the filter
\* accepts a blob of the source repository exactly when its digest is the
\* digest of a selected layer.
C17_MountedAndFilteredBlobs ==
  /\ \A p \in 1..Len(selected) :
       RegistryOf(p) = refRegistry =>
         LET name == bundle.ZarfPackages[p].Repository
             expected == DigestSeq(selected[p]) \o <<SourcePackages[name].config.digest>>
         IN /\ IsPrefix(MountedDigests(p), expected)
            /\ p < i => MountedDigests(p) = expected
  /\ pc = "copy" =>
       /\ layersToCopy = selected[i]
       /\ \A d \in SourceBlobs(CurPkg.Repository) :
            FilterLayers(layersToCopy, d) <=> d.digest \in DigestsOf(selected[i])
       /\ ~FilterLayers(layersToCopy, root.config)

\* A bundle with a mounted package and a copied package, at the copy of the
\* second, which leaves out the layer of its optional component.
C17_Witness ==
  /\ pc = "copy"
  /\ i = 2
  /\ RegistryOf(1) = refRegistry
  /\ Len(MountedDigests(1)) = Len(selected[1]) + 1
  /\ \E d \in SourceBlobs(CurPkg.Repository) : ~FilterLayers(layersToCopy, d)
  /\ CurPkg.OptionalComponents = {}

\* C18: a failed call inside LoadPackageMetadata ends the call with that
\* call's error: a failed FetchManifest is the last call of LoadPackageMetadata
\* (no layer is read or fetched after it), and so is a failed WriteYaml.
C18_MetadataFailuresBubble ==
  \A j \in 1..Len(fops) :
    /\ (fops[j].call = "FetchManifest" /\ ~fops[j].ok) =>
         (j = Len(fops) /\ fpc = "idle" /\ fres = "fetchManifestErr")
    /\ (fops[j].call = "WriteYaml" /\ ~fops[j].ok) =>
         (j = Len(fops) /\ fpc = "idle" /\ fres = "writeYamlErr")

\* C19: when the sub-manifest has no layer titled zarf.yaml or none titled
\* checksums.txt, LoadPackageMetadata does not get to the integrity validation
\* (it has returned the not-found error before), and the layers it sets for
\* the validation never include the zero descriptor.
C19_MissingLayerNotFound ==
  /\ \A j \in 1..Len(setLayers) : ~IsEmptyDescriptor(setLayers[j])
  /\ (\/ fpc = "mValidate"
      \/ MetadataValidated) =>
       /\ ~IsEmptyDescriptor(Locate(pkgManifest, ZarfYAML))
       /\ ~IsEmptyDescriptor(Locate(pkgManifest, ChecksumsTxt))

\* C20: after a successful publish the architecture in the config blob is not
\* empty and is bundle.Metadata.Architecture.
C20_ConfigArchitecture ==
  pc = "done" =>
    /\ configBlob.Architecture # ""
    /\ configBlob.Architecture = bundle.Metadata.Architecture

\* The positions of a call of the download step that has not returned.
DownloadPositions == {"fetchManifest", "verify", "sendDone", "sendErr", "retErr", "wait"}

\* C21: every call of the download step returns. Once oras.Copy has returned,
\* the send on doneSaving or on errChan is taken by the progress task, which
\* receives from one of the two channels and then signals the wait group, so
\* neither the send nor wg.Wait() blocks forever.
C21_DownloadReturns ==
  (fpc \in DownloadPositions) ~> (fpc = "idle")

\* A download has returned its layers after the progress task signalled the wait group.
C21_Witness ==
  /\ fpc = "idle"
  /\ fres = "ok"
  /\ progress = "terminated"
  /\ wg = 0
  /\ FCall("Copy", TRUE) = fops[Len(fops)]

----------------------------------------------------------------------------
\* Properties of the task runner

\* The tasks a task references.
References(name) ==
  IF HasTask(tasksFile, name)
  THEN {getTask(tasksFile, name).Actions[j].TaskReference :
          j \in 1..Len(getTask(tasksFile, name).Actions)} \ {""}
  ELSE {}

\* The tasks reached from the tasks of names by one reference or more.
RECURSIVE ReachedFrom(_, _)
ReachedFrom(names, seen) ==
  LET next == UNION {References(n) : n \in names} \ seen
  IN IF next = {} THEN seen ELSE ReachedFrom(next, seen \cup next)

Reached(name) == ReachedFrom({name}, {})

\* The references reachable from the started task form a cycle.
CycleReachable ==
  \E n \in {taskName} \cup Reached(taskName) : n \in Reached(n)

\* Every task reachable from the started task is in the file.
AllResolve ==
  \A n \in {taskName} \cup Reached(taskName) : HasTask(tasksFile, n)

NoAttemptFailed == \A j \in 1..Len(attemptLog) : attemptLog[j]

AllAttemptsFailed == \A j \in 1..Len(attemptLog) : ~attemptLog[j]

\* C22: Run returns on every tasks file, and neither recursion gets deeper
\* than the number of tasks plus one; when a cycle of references is reachable
\* from the started task, Run returns an error, and the error is "task loop
\* detected" unless a task was missing or a command failed before.
C22_RunTerminatesOnCycles ==
  /\ <>(rpc = "returned")
  /\ [](/\ Len(cstack) <= Len(TaskNames) + 1
        /\ Len(stack) <= Len(TaskNames) + 1)
  /\ []((rpc = "returned" /\ CycleReachable) =>
          /\ rerr # ""
          /\ (AllResolve /\ NoAttemptFailed) => rerr = "task loop detected")

\* Run has executed a command of the started task and then returned the loop
\* error for a cycle through the started task.
C22_Witness ==
  /\ rpc = "returned"
  /\ rerr = "task loop detected"
  /\ CycleReachable
  /\ taskName \in Reached(taskName)
  /\ attemptLog = <<TRUE>>

\* C23: Run returns "task loop detected" only when the references reachable
\* from the started task form a cycle.
C23_LoopErrorOnlyOnCycle ==
  rerr = "task loop detected" => CycleReachable

\* C24: the command of an action is attempted cfg.MaxRetries + 1 times at
\* most; a successful attempt is the last one and ends the action without an
\* error; when cfg.MaxRetries + 1 attempts have failed the action ends with an
\* error.
C24_AttemptsBounded ==
  /\ Len(attemptLog) <= cfg.MaxRetries + 1
  /\ \A j \in 1..(Len(attemptLog) - 1) : ~attemptLog[j]
  /\ rpc \in {"action", "final"} => AllAttemptsFailed
  /\ (attemptLog # <<>> /\ attemptLog[Len(attemptLog)]) =>
       rerr \notin {"timed out", "failed after retries"}
  /\ (Len(attemptLog) = cfg.MaxRetries + 1 /\ AllAttemptsFailed) =>
       /\ rpc \in {"final", "returned"}
       /\ rpc = "returned" => rerr \in {"timed out", "failed after retries"}

\* A command with two retries has succeeded at its third attempt.
C24_Witness ==
  /\ rpc = "returned"
  /\ rerr = ""
  /\ cfg.MaxRetries = 2
  /\ attemptLog = <<FALSE, FALSE, TRUE>>

\* C25: when the retry loop receives the timeout while retries remain, no
\* attempt of the command is started after it and the action returns the
\* "timed out" error.
C25_TimeoutAbortsRetries ==
  (timeoutSeenAt # <<>> /\ timeoutSeenAt[1] < cfg.MaxRetries) =>
    /\ Len(attemptLog) = timeoutSeenAt[1]
    /\ rpc = "returned" => rerr = "timed out"

Spec == Init /\ [][Next]_vars

\* The steps of the goroutine that calls downloadPkgFromRemoteBundle.
DownloadStep ==
  \/ DownloadFetchManifest
  \/ DownloadVerifyLayer
  \/ DownloadCopy
  \/ DownloadSignal
  \/ DownloadReturnErr
  \/ DownloadReturn

\* Spec with the Go scheduler's fairness: a goroutine that can take a step
\* eventually takes one, the calling goroutine as well as the progress task.
SpecFair ==
  /\ Init
  /\ [][Next]_vars
  /\ WF_vars(DownloadStep)
  /\ WF_vars(ProgressTaskDone)

\* Bundle alone, on bundles of no packages with every combination of empty
\* and non-empty metadata fields.
NextMeta ==
  \/ BundleStart
  \/ PushBundleYaml
  \/ PushSignature
  \/ PushConfig
  \/ PushReference

SpecMeta == InitMeta /\ [][NextMeta]_vars

\* Run alone; the goroutine that calls it takes a step whenever it can.
SpecRun == InitRun /\ [][NextRun]_vars /\ WF_vars(RunStep)
====
